---- MODULE Spec2Model ----
(***************************************************************************)
(* Model of hfc/util/utils.py (fabric-sdk-py): the endorsement collector   *)
(* and quorum check build_tx_req, the orchestration send_transaction, and  *)
(* the signer adapters sign_proposal and sign_tran_payload.                *)
(*                                                                         *)
(* Spec      : one run of build_tx_req against an asynchronous producer,   *)
(*             followed by send_transaction on the value it returned.      *)
(* SpecCalls : direct calls of send_transaction, sign_proposal,             *)
(*             send_transaction_proposal and extract_channel_config with   *)
(*             arbitrary arguments.                                        *)
(***************************************************************************)
EXTENDS Integers, Sequences, FiniteSets

VARIABLES
    q,            \* the Queue(1) of build_tx_req: a sequence of at most QueueSize items
    blocked,      \* the item of a q.put that blocks on the full queue (<<>> when none)
    pub,          \* number of items the producer has published
    arrivals,     \* the items the producer has published, in publication order
    prodDone,     \* the producer has published its error item (the stream is over)
    pcB,          \* position of build_tx_req: "start", "waiting" (in q.get), "done"
    got,          \* the items q.get has returned to build_tx_req, in order
    statusChecks, \* number of evaluations of r[0].response.status != 200
    outB,         \* outcome of build_tx_req
    pst,          \* the call send_transaction(orderers, build_tx_req(...), tx_context)
    call          \* the latest direct call of send_transaction or sign_proposal

vars == <<q, blocked, pub, arrivals, prodDone, pcB, got, statusChecks, outB, pst, call>>

collectorVars == <<q, blocked, pub, arrivals, prodDone, pcB, got, statusChecks, outB>>

-----------------------------------------------------------------------------
(* Bounds and program constants *)

MaxResp == 2

MaxPub == 2

SuccessStatus == 200

QueueSize == 1

-----------------------------------------------------------------------------
(* Data *)

Statuses == {SuccessStatus, 500}

Endorsers == {"E1", "E2"}

Proposals == {"P1", "P2"}

NoProposal == "NoProposal"

Headers == {"H1", "H2"}

AllOrderers == {"O1", "O2", "O3"}

NoOrderer == "NoOrderer"

\* One element r of the response list; r[0] is the peer's ProposalResponse.
Response == [status : Statuses, endorsement : Endorsers]

ResponseSeqs == UNION {[1..n -> Response] : n \in 0..MaxResp}

\* The aggregate item on_next delivers: res[0], res[1], res[2].
ValueItems ==
    [kind : {"value"}, responses : ResponseSeqs,
     proposal : Proposals \cup {NoProposal}, header : Headers]

\* The items a producer publishes after its first one: never read by build_tx_req.
LaterValueItems ==
    {x \in ValueItems : Len(x.responses) <= 1 /\ x.proposal = "P1" /\ x.header = "H1"}

PublishedItems == IF pub = 0 THEN ValueItems ELSE LaterValueItems

\* The exception on_error delivers.
ErrorItem == [kind |-> "error"]

\* What indexing and iterating an exception instance raises: TypeError on
\* Python 3; on Python 2 e[0] is e.args[0], and IndexError or AttributeError follow.
ErrorItemExceptions == {"TypeError", "IndexError", "AttributeError"}

NoneValue == [kind |-> "None"]

TXRequest(responses, proposal, header) ==
    [kind |-> "req", responses |-> responses, proposal |-> proposal, header |-> header]

TXRequests ==
    {TXRequest(rs, p, h) : rs \in ResponseSeqs, p \in Proposals \cup {NoProposal}, h \in Headers}

Returned(v) == [kind |-> "return", value |-> v]

Raised(e) == [kind |-> "raise", exc |-> e]

Running == [kind |-> "running"]

AllSuccess(rs) == \A i \in 1..Len(rs) : rs[i].status = SuccessStatus

-----------------------------------------------------------------------------
(* build_tx_req *)

\* Faulty variant: only the first response is checked.
StatusLoop_FirstOnly(rs, i) ==
    IF Len(rs) >= 1 /\ rs[1].status # SuccessStatus
    THEN [rejected |-> TRUE, checks |-> 1]
    ELSE [rejected |-> FALSE, checks |-> IF Len(rs) >= 1 THEN 1 ELSE 0]

\* The loop over res[0]: stops at the first response whose status is not 200.
RECURSIVE StatusLoop(_, _)
StatusLoop(rs, i) ==
    IF i > Len(rs) THEN [rejected |-> FALSE, checks |-> Len(rs)]
    ELSE IF rs[i].status # SuccessStatus THEN [rejected |-> TRUE, checks |-> i]
    ELSE StatusLoop(rs, i + 1)

\* Faulty variant: the request is built with proposal and header exchanged.
AfterGet_SwapFields(res, exc) ==
    IF res.kind = "error"
    THEN [out |-> Raised(exc), checks |-> 0]
    ELSE LET l == StatusLoop(res.responses, 1) IN
         IF l.rejected
         THEN [out |-> Returned(NoneValue), checks |-> l.checks]
         ELSE [out |-> Returned(TXRequest(res.responses, res.header, res.proposal)),
               checks |-> l.checks]

\* Faulty variant: an error item is treated as a rejected batch.
AfterGet_ErrorAsReject(res, exc) ==
    IF res.kind = "error"
    THEN [out |-> Returned(NoneValue), checks |-> 0]
    ELSE LET l == StatusLoop(res.responses, 1) IN
         IF l.rejected
         THEN [out |-> Returned(NoneValue), checks |-> l.checks]
         ELSE [out |-> Returned(TXRequest(res.responses, res.proposal, res.header)),
               checks |-> l.checks]

\* Faulty variant: an empty batch is rejected like a failed one.
AfterGet_RejectEmpty(res, exc) ==
    IF res.kind = "error"
    THEN [out |-> Raised(exc), checks |-> 0]
    ELSE LET l == StatusLoop(res.responses, 1) IN
         IF l.rejected \/ res.responses = <<>>
         THEN [out |-> Returned(NoneValue), checks |-> l.checks]
         ELSE [out |-> Returned(TXRequest(res.responses, res.proposal, res.header)),
               checks |-> l.checks]

\* Faulty variant: a rejected batch yields a partial request of its successful responses.
AfterGet_PartialAccept(res, exc) ==
    IF res.kind = "error"
    THEN [out |-> Raised(exc), checks |-> 0]
    ELSE LET l == StatusLoop(res.responses, 1)
             ok(r) == r.status = SuccessStatus
         IN  [out |-> Returned(TXRequest(SelectSeq(res.responses, ok),
                                         res.proposal, res.header)),
              checks |-> l.checks]

\* What build_tx_req does with the item q.get returned.
AfterGet(res, exc) ==
    IF res.kind = "error"
    THEN [out |-> Raised(exc), checks |-> 0]
    ELSE LET l == StatusLoop(res.responses, 1) IN
         IF l.rejected
         THEN [out |-> Returned(NoneValue), checks |-> l.checks]
         ELSE [out |-> Returned(TXRequest(res.responses, res.proposal, res.header)),
               checks |-> l.checks]

\* Faulty variant: the timeout is swallowed and reported as a rejection.
GetTimedOut_AsReject == Returned(NoneValue)

\* What q.get(timeout=15) does when the timeout elapses on the empty queue.
GetTimedOut == Raised("Empty")

\* q.put(x): stores x when the queue has room, blocks otherwise.
Put(x) ==
    IF Len(q) < QueueSize
    THEN /\ q' = Append(q, x)
         /\ blocked' = blocked
    ELSE /\ blocked' = <<x>>
         /\ q' = q

Subscribe ==
    /\ pcB = "start"
    /\ pcB' = "waiting"
    /\ UNCHANGED <<q, blocked, pub, arrivals, prodDone, got, statusChecks, outB, pst, call>>

OnNext ==
    /\ pcB # "start"
    /\ ~prodDone
    /\ blocked = <<>>
    /\ pub < MaxPub
    /\ \E x \in PublishedItems : Put(x) /\ arrivals' = Append(arrivals, x)
    /\ pub' = pub + 1
    /\ UNCHANGED <<prodDone, pcB, got, statusChecks, outB, pst, call>>

OnError ==
    /\ pcB # "start"
    /\ ~prodDone
    /\ blocked = <<>>
    /\ pub < MaxPub
    /\ Put(ErrorItem)
    /\ arrivals' = Append(arrivals, ErrorItem)
    /\ pub' = pub + 1
    /\ prodDone' = TRUE
    /\ UNCHANGED <<pcB, got, statusChecks, outB, pst, call>>

PutResume ==
    /\ blocked # <<>>
    /\ Len(q) < QueueSize
    /\ q' = Append(q, blocked[1])
    /\ blocked' = <<>>
    /\ UNCHANGED <<pub, arrivals, prodDone, pcB, got, statusChecks, outB, pst, call>>

\* Faulty variant: the slot is read again whenever it holds an item, also after
\* build_tx_req has produced its outcome.
Get_Rereads ==
    /\ pcB \in {"waiting", "done"}
    /\ q # <<>>
    /\ \E exc \in ErrorItemExceptions :
         LET r == AfterGet(Head(q), exc) IN
         /\ outB' = r.out
         /\ statusChecks' = statusChecks + r.checks
    /\ got' = Append(got, Head(q))
    /\ q' = Tail(q)
    /\ pcB' = "done"
    /\ UNCHANGED <<blocked, pub, arrivals, prodDone, pst, call>>

Get ==
    /\ pcB = "waiting"
    /\ q # <<>>
    /\ \E exc \in ErrorItemExceptions :
         LET r == AfterGet(Head(q), exc) IN
         /\ outB' = r.out
         /\ statusChecks' = statusChecks + r.checks
    /\ got' = Append(got, Head(q))
    /\ q' = Tail(q)
    /\ pcB' = "done"
    /\ UNCHANGED <<blocked, pub, arrivals, prodDone, pst, call>>

Timeout ==
    /\ pcB = "waiting"
    /\ q = <<>>
    /\ outB' = GetTimedOut
    /\ pcB' = "done"
    /\ UNCHANGED <<q, blocked, pub, arrivals, prodDone, got, statusChecks, pst, call>>

-----------------------------------------------------------------------------
(* Collaborators: the signing capability, the assembler, the orderers *)

\* The bytes proposal.SerializeToString() yields.
SerializeToString(proposal) == [serialized |-> proposal]

\* The signature tx_context.sign(bytes) returns when it does not raise.
Signature(bytes) == [signed |-> bytes]

SignCall(bytes) == [op |-> "sign", bytes |-> bytes]

\* create_tx_payload(endorsements, tran_req): the commit payload bytes.
create_tx_payload(endorsements, tran_req) ==
    [endorsements |-> endorsements, proposal |-> tran_req.proposal,
     header |-> tran_req.header]

AssembleCall(endorsements, tran_req) ==
    [op |-> "create_tx_payload", endorsements |-> endorsements, tran_req |-> tran_req]

\* The handle orderer.broadcast(envelope, scheduler) returns.
BroadcastHandle(orderer, envelope) ==
    [kind |-> "handle", orderer |-> orderer, envelope |-> envelope]

BroadcastCall(orderer, envelope) ==
    [op |-> "broadcast", orderer |-> orderer, envelope |-> envelope]

-----------------------------------------------------------------------------
(* sign_proposal, sign_tran_payload *)

SignedProposal(sig, proposal_bytes) ==
    [signature |-> sig, proposal_bytes |-> proposal_bytes]

Envelope(sig, payload) == [signature |-> sig, payload |-> payload]

\* signOk: whether tx_context.sign returns (TRUE) or raises (FALSE).
sign_proposal(signOk, proposal) ==
    LET proposal_bytes == SerializeToString(proposal) IN
    [calls  |-> <<SignCall(proposal_bytes)>>,
     result |-> IF signOk
                THEN Returned(SignedProposal(Signature(proposal_bytes), proposal_bytes))
                ELSE Raised("SignError")]

\* Faulty variant: the payload is encoded again after it has been signed.
sign_tran_payload_Reencodes(signOk, tran_payload_bytes) ==
    [calls  |-> <<SignCall(tran_payload_bytes)>>,
     result |-> IF signOk
                THEN Returned(Envelope(Signature(tran_payload_bytes),
                                       SerializeToString(tran_payload_bytes)))
                ELSE Raised("SignError")]

\* Faulty variant: a failed signing is retried once before the failure is raised.
sign_tran_payload_Retry(signOk, tran_payload_bytes) ==
    [calls  |-> IF signOk
                THEN <<SignCall(tran_payload_bytes)>>
                ELSE <<SignCall(tran_payload_bytes), SignCall(tran_payload_bytes)>>,
     result |-> IF signOk
                THEN Returned(Envelope(Signature(tran_payload_bytes), tran_payload_bytes))
                ELSE Raised("SignError")]

sign_tran_payload(signOk, tran_payload_bytes) ==
    [calls  |-> <<SignCall(tran_payload_bytes)>>,
     result |-> IF signOk
                THEN Returned(Envelope(Signature(tran_payload_bytes), tran_payload_bytes))
                ELSE Raised("SignError")]

-----------------------------------------------------------------------------
(* send_transaction *)

\* rx.Observable.just(ValueError(msg)): the error as a value on the returned handle.
ErrorValue(msg) == [kind |-> "just", error |-> "ValueError", msg |-> msg]

\* Faulty variant: the check of the orderer set is missing.
MissingInput_NoOrdererCheck(orderers, tran_req) ==
    IF tran_req = NoneValue
    THEN <<"Missing input request object on the transaction request">>
    ELSE IF Len(tran_req.responses) < 1
    THEN <<"Missing 'proposalResponses' parameter in transaction request">>
    ELSE IF tran_req.proposal = NoProposal
    THEN <<"Missing 'proposalResponses' parameter in transaction request">>
    ELSE <<>>

\* Faulty variant: the check of the responses is missing.
MissingInput_NoResponsesCheck(orderers, tran_req) ==
    IF tran_req = NoneValue
    THEN <<"Missing input request object on the transaction request">>
    ELSE IF tran_req.proposal = NoProposal
    THEN <<"Missing 'proposalResponses' parameter in transaction request">>
    ELSE IF Cardinality(orderers) < 1
    THEN <<"Missing orderer objects on this chain">>
    ELSE <<>>

\* The four checks at the head of send_transaction, in order: <<>> when all pass.
MissingInput(orderers, tran_req) ==
    IF tran_req = NoneValue
    THEN <<"Missing input request object on the transaction request">>
    ELSE IF Len(tran_req.responses) < 1
    THEN <<"Missing 'proposalResponses' parameter in transaction request">>
    ELSE IF tran_req.proposal = NoProposal
    THEN <<"Missing 'proposalResponses' parameter in transaction request">>
    ELSE IF Cardinality(orderers) < 1
    THEN <<"Missing orderer objects on this chain">>
    ELSE <<>>

\* Faulty variant: an endorser's second and later endorsements are dropped.
Endorsements_Dedup(responses) ==
    LET n == Len(responses)
        fresh(i) == \A j \in 1..(i - 1) : responses[j].endorsement # responses[i].endorsement
        F[i \in 0..n] ==
            IF i = 0 THEN <<>>
            ELSE IF fresh(i) THEN Append(F[i - 1], responses[i].endorsement)
            ELSE F[i - 1]
    IN  F[n]

\* map(lambda res: res[0].endorsement, tran_req.responses)
Endorsements(responses) == [i \in 1..Len(responses) |-> responses[i].endorsement]

\* Faulty variant: the draw is made among every known orderer, not the supplied ones.
OrdererChoices_All(orderers) == AllOrderers

\* The population random.choice draws from: list(orderers.values()).
OrdererChoices(orderers) == orderers

\* random.choice(...) then orderer.broadcast(envelope, scheduler); pick is the draw.
Broadcast(orderers, envelope, pick) ==
    IF pick \notin OrdererChoices(orderers)
    THEN [calls |-> <<>>, result |-> Raised("IndexError")]
    ELSE [calls  |-> <<BroadcastCall(pick, envelope)>>,
          result |-> Returned(BroadcastHandle(pick, envelope))]

send_transaction(orderers, tran_req, signOk, pick) ==
    LET missing == MissingInput(orderers, tran_req) IN
    IF missing # <<>>
    THEN [calls |-> <<>>, result |-> Returned(ErrorValue(missing[1]))]
    ELSE LET endorsements == Endorsements(tran_req.responses)
             tran_payload_bytes == create_tx_payload(endorsements, tran_req)
             assembled == <<AssembleCall(endorsements, tran_req)>>
             s == sign_tran_payload(signOk, tran_payload_bytes)
         IN  IF s.result.kind = "raise"
             THEN [calls |-> assembled \o s.calls, result |-> s.result]
             ELSE LET b == Broadcast(orderers, s.result.value, pick) IN
                  [calls |-> assembled \o s.calls \o b.calls, result |-> b.result]

Picks(orderers) ==
    IF OrdererChoices(orderers) = {} THEN {NoOrderer} ELSE OrdererChoices(orderers)

\* send_transaction(orderers, build_tx_req(responses), tx_context): the call is made
\* only when build_tx_req returned; an exception of build_tx_req leaves the flow.
SendPipeline ==
    /\ pcB = "done"
    /\ outB.kind = "return"
    /\ ~pst.called
    /\ \E orderers \in SUBSET AllOrderers, signOk \in BOOLEAN :
         \E pick \in Picks(orderers) :
           LET r == send_transaction(orderers, outB.value, signOk, pick) IN
           pst' = [called |-> TRUE, orderers |-> orderers, tran_req |-> outB.value,
                   signOk |-> signOk, calls |-> r.calls, result |-> r.result]
    /\ UNCHANGED <<collectorVars, call>>

\* A direct call with arbitrary arguments. The functions keep no state between
\* calls, so a behaviour of SpecCalls makes one call.
SendTransaction ==
    /\ ~call.called
    /\ \E orderers \in SUBSET AllOrderers, signOk \in BOOLEAN,
          tran_req \in TXRequests \cup {NoneValue} :
         \E pick \in Picks(orderers) :
           LET r == send_transaction(orderers, tran_req, signOk, pick) IN
           call' = [called |-> TRUE, op |-> "send_transaction", orderers |-> orderers,
                    tran_req |-> tran_req, signOk |-> signOk,
                    calls |-> r.calls, result |-> r.result]
    /\ UNCHANGED <<collectorVars, pst>>

SignProposal ==
    /\ ~call.called
    /\ \E proposal \in Proposals, signOk \in BOOLEAN :
         LET r == sign_proposal(signOk, proposal) IN
         call' = [called |-> TRUE, op |-> "sign_proposal", proposal |-> proposal,
                  signOk |-> signOk, calls |-> r.calls, result |-> r.result]
    /\ UNCHANGED <<collectorVars, pst>>

-----------------------------------------------------------------------------
(* send_transaction_proposal *)

AllPeers == {"N1", "N2", "N3"}

\* The peers argument: distinct peers in their iteration order.
PeerSeqs ==
    UNION {{s \in [1..n -> AllPeers] : \A i, j \in 1..n : s[i] = s[j] => i = j} :
           n \in 0..Cardinality(AllPeers)}

\* The handle peer.send_proposal(signed_proposal, scheduler)[0].
ProposalHandle(peer, signed_proposal) ==
    [kind |-> "proposal_handle", peer |-> peer, signed_proposal |-> signed_proposal]

SendProposalCall(peer, signed_proposal) ==
    [op |-> "send_proposal", peer |-> peer, signed_proposal |-> signed_proposal]

\* Faulty variant: the proposal is signed anew for every peer.
send_transaction_proposal_SignsPerPeer(signOk, proposal, peers) ==
    LET s == sign_proposal(signOk, proposal)
        n == Len(peers)
        F[i \in 0..n] ==
            IF i = 0 THEN <<>>
            ELSE F[i - 1] \o s.calls \o <<SendProposalCall(peers[i], s.result.value)>>
    IN  IF s.result.kind = "raise"
        THEN [calls |-> IF n = 0 THEN <<>> ELSE s.calls, result |-> s.result]
        ELSE [calls  |-> F[n],
              result |-> Returned([i \in 1..n |-> ProposalHandle(peers[i], s.result.value)])]

\* header and scheduler play no part: the header is not used, the scheduler is
\* passed through to every peer.
send_transaction_proposal(signOk, proposal, peers) ==
    LET s == sign_proposal(signOk, proposal) IN
    IF s.result.kind = "raise"
    THEN [calls |-> s.calls, result |-> s.result]
    ELSE LET signed_proposal == s.result.value IN
         [calls  |-> s.calls \o
                     [i \in 1..Len(peers) |-> SendProposalCall(peers[i], signed_proposal)],
          result |-> Returned([i \in 1..Len(peers) |->
                                   ProposalHandle(peers[i], signed_proposal)])]

SendTransactionProposal ==
    /\ ~call.called
    /\ \E proposal \in Proposals, signOk \in BOOLEAN, peers \in PeerSeqs :
         LET r == send_transaction_proposal(signOk, proposal, peers) IN
         call' = [called |-> TRUE, op |-> "send_transaction_proposal",
                  proposal |-> proposal, peers |-> peers, signOk |-> signOk,
                  calls |-> r.calls, result |-> r.result]
    /\ UNCHANGED <<collectorVars, pst>>

-----------------------------------------------------------------------------
(* extract_channel_config *)

\* Byte strings as the protobuf parser sees them: malformed, or the encoding of a
\* message with one field that holds the next level's bytes.
Malformed == [wf |-> FALSE]

ConfigUpdates == {"", "cu1", "cu2"}

ConfigUpdateEnvelopeBytes ==
    {Malformed} \cup {[wf |-> TRUE, config_update |-> c] : c \in ConfigUpdates}

PayloadBytes ==
    {Malformed} \cup {[wf |-> TRUE, data |-> d] : d \in ConfigUpdateEnvelopeBytes}

EnvelopeBytes ==
    {Malformed} \cup {[wf |-> TRUE, payload |-> p] : p \in PayloadBytes}

\* message.ParseFromString(bytes): raises DecodeError on malformed bytes.
ParseFromString(bytes) ==
    IF bytes.wf THEN Returned(bytes) ELSE Raised("DecodeError")

\* The body of the try block: the three nested decodes, in order; decodes counts
\* the ParseFromString calls made.
DecodeChain(configtx_proto_envelope) ==
    LET envelope == ParseFromString(configtx_proto_envelope) IN
    IF envelope.kind = "raise" THEN [out |-> envelope, decodes |-> 1]
    ELSE LET payload == ParseFromString(envelope.value.payload) IN
         IF payload.kind = "raise" THEN [out |-> payload, decodes |-> 2]
         ELSE LET configtx == ParseFromString(payload.value.data) IN
              [out |-> configtx, decodes |-> 3]

\* Faulty variant: the DecodeError is not caught and leaves the function as it is.
extract_channel_config_Leaks(configtx_proto_envelope) ==
    LET d == DecodeChain(configtx_proto_envelope) IN
    [decodes |-> d.decodes,
     result  |-> IF d.out.kind = "raise"
                 THEN d.out
                 ELSE Returned(d.out.value.config_update)]

extract_channel_config(configtx_proto_envelope) ==
    LET d == DecodeChain(configtx_proto_envelope) IN
    [decodes |-> d.decodes,
     result  |-> IF d.out.kind = "raise" /\ d.out.exc = "DecodeError"
                 THEN Raised("ValueError")
                 ELSE IF d.out.kind = "raise"
                 THEN d.out
                 ELSE Returned(d.out.value.config_update)]

ExtractChannelConfig ==
    /\ ~call.called
    /\ \E bytes \in EnvelopeBytes :
         LET r == extract_channel_config(bytes) IN
         call' = [called |-> TRUE, op |-> "extract_channel_config", bytes |-> bytes,
                  decodes |-> r.decodes, result |-> r.result]
    /\ UNCHANGED <<collectorVars, pst>>

-----------------------------------------------------------------------------

NotCalled == [called |-> FALSE]

Init ==
    /\ q = <<>>
    /\ blocked = <<>>
    /\ pub = 0
    /\ arrivals = <<>>
    /\ prodDone = FALSE
    /\ pcB = "start"
    /\ got = <<>>
    /\ statusChecks = 0
    /\ outB = Running
    /\ pst = NotCalled
    /\ call = NotCalled

Next ==
    \/ Subscribe
    \/ OnNext
    \/ OnError
    \/ PutResume
    \/ Get
    \/ Timeout
    \/ SendPipeline

Spec == Init /\ [][Next]_vars

NextCalls ==
    \/ SendTransaction
    \/ SignProposal
    \/ SendTransactionProposal
    \/ ExtractChannelConfig

SpecCalls == Init /\ [][NextCalls]_vars

-----------------------------------------------------------------------------
(* Properties of build_tx_req, checked under Spec *)

\* build_tx_req has finished on a value item delivered by on_next.
DeliveredValue == pcB = "done" /\ Len(got) = 1 /\ got[1].kind = "value"

\* build_tx_req has finished on an error item delivered by on_error.
DeliveredError == pcB = "done" /\ Len(got) = 1 /\ got[1].kind = "error"

\* build_tx_req has finished without any item: the timeout elapsed on the empty queue.
TimedOut == pcB = "done" /\ got = <<>>

ReturnedNone == outB.kind = "return" /\ outB.value.kind = "None"

ReturnedRequest == outB.kind = "return" /\ outB.value.kind = "req"

\* C1: when the delivered response set is non-empty and every response has status
\* 200, build_tx_req returns a request whose responses are the delivered sequence,
\* element for element and in order, and whose proposal and header are the
\* delivered proposal and header.
C1_AcceptPreservesDelivered ==
    (DeliveredValue /\ got[1].responses # <<>> /\ AllSuccess(got[1].responses))
        => /\ ReturnedRequest
           /\ outB.value.responses = got[1].responses
           /\ outB.value.proposal = got[1].proposal
           /\ outB.value.header = got[1].header

C1_Witness ==
    /\ DeliveredValue
    /\ Len(got[1].responses) >= 2
    /\ AllSuccess(got[1].responses)
    /\ got[1].responses[1].endorsement # got[1].responses[2].endorsement
    /\ got[1].proposal = "P2"
    /\ ReturnedRequest

\* C2: when the delivered response set holds at least one response whose status is
\* not 200, build_tx_req returns None, wherever the failing response stands and
\* however many others succeeded.
C2_AnyFailureRejects ==
    (DeliveredValue /\ ~AllSuccess(got[1].responses)) => ReturnedNone

C2_Witness ==
    /\ DeliveredValue
    /\ Len(got[1].responses) >= 2
    /\ got[1].responses[1].status = SuccessStatus
    /\ got[1].responses[Len(got[1].responses)].status # SuccessStatus
    /\ ReturnedNone

\* C4: when no item reaches the collector before the timeout elapses, build_tx_req
\* ends by raising queue.Empty: it returns neither None nor a transaction request.
C4_TimeoutIsDistinctFailure ==
    TimedOut => /\ outB.kind = "raise"
                /\ outB.exc = "Empty"
                /\ ~ReturnedNone
                /\ ~ReturnedRequest

C4_Witness == TimedOut /\ pub = 0 /\ outB.kind = "raise"

C8_EmptyRejected ==
    DeliveredValue =>
        /\ ReturnedRequest => (got[1].responses # <<>> /\ AllSuccess(got[1].responses))
        /\ got[1].responses = <<>> => ReturnedNone

\* C8 amended: build_tx_req returns None exactly when some delivered response is not
\* successful; for the empty response set it returns a transaction request with
\* empty responses and the delivered proposal and header, not None.
C8_EmptyAccepted ==
    DeliveredValue =>
        /\ ReturnedNone <=> ~AllSuccess(got[1].responses)
        /\ ReturnedRequest <=> AllSuccess(got[1].responses)
        /\ got[1].responses = <<>> =>
              /\ ReturnedRequest
              /\ outB.value.responses = <<>>
              /\ outB.value.proposal = got[1].proposal
              /\ outB.value.header = got[1].header

C8_Witness == DeliveredValue /\ got[1].responses = <<>> /\ ReturnedRequest

-----------------------------------------------------------------------------
(* Properties of send_transaction and the signers *)

CallsOf(cs, op) == LET is(c) == c.op = op IN SelectSeq(cs, is)

IsErrorValue(r) ==
    r.kind = "return" /\ r.value.kind = "just" /\ r.value.error = "ValueError"

\* The four preconditions of a recorded send_transaction call c.
PreconditionsHold(c) ==
    /\ c.tran_req.kind = "req"
    /\ c.tran_req.responses # <<>>
    /\ c.tran_req.proposal # NoProposal
    /\ c.orderers # {}

DirectSend == call.called /\ call.op = "send_transaction"

\* C3: with the request absent, the responses empty, the proposal absent or the
\* orderer set empty, send_transaction returns (does not raise) a handle carrying a
\* ValueError as its value and makes no call at all: no assembly, no signing, no
\* broadcast to any orderer.
C3_MissingInputIsErrorValue ==
    DirectSend =>
        /\ call.tran_req.kind = "None" => (IsErrorValue(call.result) /\ call.calls = <<>>)
        /\ (call.tran_req.kind = "req" /\ call.tran_req.responses = <<>>)
              => (IsErrorValue(call.result) /\ call.calls = <<>>)
        /\ (call.tran_req.kind = "req" /\ call.tran_req.proposal = NoProposal)
              => (IsErrorValue(call.result) /\ call.calls = <<>>)
        /\ call.orderers = {} => (IsErrorValue(call.result) /\ call.calls = <<>>)

C3_Witness ==
    /\ DirectSend
    /\ call.tran_req.kind = "req"
    /\ call.tran_req.responses # <<>>
    /\ AllSuccess(call.tran_req.responses)
    /\ call.tran_req.proposal # NoProposal
    /\ call.orderers = {}
    /\ IsErrorValue(call.result)

\* C6: in the pipeline, create_tx_payload is called only with a request whose
\* responses are non-empty and all successful; after a timeout or an error item
\* send_transaction is not called at all, and after a rejected or an empty batch
\* it makes no call: no assembly, no signing, no broadcast.
C6_OnlyAcceptedReachesAssembler ==
    /\ (TimedOut \/ DeliveredError) => ~pst.called
    /\ pst.called =>
          /\ \A i \in 1..Len(pst.calls) :
                pst.calls[i].op = "create_tx_payload" =>
                   /\ pst.calls[i].tran_req.responses # <<>>
                   /\ AllSuccess(pst.calls[i].tran_req.responses)
          /\ (DeliveredValue /\ ~AllSuccess(got[1].responses)) => pst.calls = <<>>
          /\ (DeliveredValue /\ got[1].responses = <<>>) => pst.calls = <<>>
          /\ pst.calls # <<>> =>
                /\ DeliveredValue
                /\ got[1].responses # <<>>
                /\ AllSuccess(got[1].responses)

C6_Witness ==
    /\ pst.called
    /\ DeliveredValue
    /\ ~AllSuccess(got[1].responses)
    /\ got[1].responses[1].status = SuccessStatus
    /\ got[1].proposal # NoProposal
    /\ pst.orderers # {}
    /\ pst.calls = <<>>

OneBroadcast(c) ==
    LET bs == CallsOf(c.calls, "broadcast")
        ss == CallsOf(c.calls, "sign")
    IN  /\ Len(bs) = 1
        /\ bs[1].orderer \in c.orderers
        /\ Len(ss) = 1
        /\ bs[1].envelope = [signature |-> [signed |-> ss[1].bytes], payload |-> ss[1].bytes]
        /\ c.result = [kind |-> "return",
                       value |-> [kind |-> "handle", orderer |-> bs[1].orderer,
                                  envelope |-> bs[1].envelope]]

C10_SignOnceAndFailFast ==
    /\ (call.called /\ call.op = "sign_proposal") =>
          /\ Len(CallsOf(call.calls, "sign")) = 1
          /\ ~call.signOk => call.result = [kind |-> "raise", exc |-> "SignError"]
          /\ call.signOk => call.result.kind = "return"
    /\ (DirectSend /\ ~PreconditionsHold(call)) => CallsOf(call.calls, "sign") = <<>>
    /\ (DirectSend /\ PreconditionsHold(call)) =>
          /\ Len(CallsOf(call.calls, "sign")) = 1
          /\ Len(call.calls) >= 2
          /\ call.calls[1].op = "create_tx_payload"
          /\ call.calls[2].op = "sign"
          /\ \A i \in 1..Len(call.calls) : call.calls[i].op = "broadcast" => i > 2
          /\ ~call.signOk =>
                /\ call.result = [kind |-> "raise", exc |-> "SignError"]
                /\ CallsOf(call.calls, "broadcast") = <<>>

C10_Witness ==
    /\ DirectSend
    /\ PreconditionsHold(call)
    /\ ~call.signOk
    /\ call.result.kind = "raise"
    /\ Len(CallsOf(call.calls, "sign")) = 1

-----------------------------------------------------------------------------
(* Properties of extract_channel_config *)

DirectExtract == call.called /\ call.op = "extract_channel_config"

\* The three nested byte strings of b all decode.
AllDecode(b) == b.wf /\ b.payload.wf /\ b.payload.data.wf

\* C11: extract_channel_config returns the embedded config_update bytes when the
\* envelope, the payload and the config-update envelope all decode; when any of
\* the three fails to decode it raises ValueError, not the DecodeError itself,
\* and it does not return.
C11_DecodeFailureIsValueError ==
    DirectExtract =>
        /\ AllDecode(call.bytes)
              => call.result = [kind |-> "return",
                                value |-> call.bytes.payload.data.config_update]
        /\ ~AllDecode(call.bytes)
              => call.result = [kind |-> "raise", exc |-> "ValueError"]

C11_Witness ==
    /\ DirectExtract
    /\ call.bytes.wf
    /\ call.bytes.payload.wf
    /\ ~call.bytes.payload.data.wf
    /\ call.decodes = 3
    /\ call.result.kind = "raise"

-----------------------------------------------------------------------------
(* Properties of the collector's single slot, checked under Spec *)

\* The outcome build_tx_req has when it is decided by item alone.
OutcomeFits(item) ==
    IF item.kind = "error"
    THEN outB.kind = "raise" /\ outB.exc \in ErrorItemExceptions
    ELSE IF AllSuccess(item.responses)
    THEN outB = [kind |-> "return",
                 value |-> [kind |-> "req", responses |-> item.responses,
                            proposal |-> item.proposal, header |-> item.header]]
    ELSE outB = [kind |-> "return", value |-> [kind |-> "None"]]

\* C12: whatever the interleaving of the producer's publications with the wait,
\* the one q.get of build_tx_req returns at most one item, nothing is read before
\* it; when it returns an item, that item is the first one published and the
\* outcome is the one that item alone decides; every item published later stays
\* in the slot or in its blocked put, never consumed, and the outcome stays.
C12_FirstItemDecides ==
    /\ Len(got) <= 1
    /\ pcB # "done" => (got = <<>> /\ outB.kind = "running")
    /\ (pcB = "done" /\ got # <<>>) =>
          /\ got[1] = arrivals[1]
          /\ OutcomeFits(arrivals[1])
    /\ arrivals = got \o q \o blocked

C12_Witness ==
    /\ pcB = "done"
    /\ Len(arrivals) = 2
    /\ got = <<arrivals[1]>>
    /\ arrivals[1].kind = "value"
    /\ arrivals[1].responses # <<>>
    /\ AllSuccess(arrivals[1].responses)
    /\ arrivals[2].kind = "error"
    /\ q = <<arrivals[2]>>
    /\ ReturnedRequest

\* C13: a write to the slot while the slot is filled returns control to the
\* producer and leaves the slot as it is: the producer is never held in a q.put
\* that nothing will release, that is, with the slot full and build_tx_req past
\* its only q.get.
C13_WriteOnFullSlotReturns ==
    ~(blocked # <<>> /\ Len(q) = QueueSize /\ pcB = "done")

-----------------------------------------------------------------------------
(* Properties of the assembly and of the signed bytes, checked under SpecCalls *)

\* C14: the endorsements send_transaction hands to create_tx_payload are one per
\* response of the request, the i-th being the endorsement of the i-th response,
\* with nothing reordered, dropped or merged by endorser; they are handed over
\* together with the request itself, whose proposal and header are the original.
C14_EndorsementsInArrivalOrder ==
    (DirectSend /\ PreconditionsHold(call)) =>
        LET as == CallsOf(call.calls, "create_tx_payload") IN
        /\ Len(as) = 1
        /\ Len(as[1].endorsements) = Len(call.tran_req.responses)
        /\ \A i \in 1..Len(call.tran_req.responses) :
              as[1].endorsements[i] = call.tran_req.responses[i].endorsement
        /\ as[1].tran_req = call.tran_req
        /\ as[1].tran_req.proposal = call.tran_req.proposal
        /\ as[1].tran_req.header = call.tran_req.header

C14_Witness ==
    /\ DirectSend
    /\ PreconditionsHold(call)
    /\ Len(call.tran_req.responses) >= 2
    /\ call.tran_req.responses[1].endorsement = call.tran_req.responses[2].endorsement
    /\ Len(CallsOf(call.calls, "create_tx_payload")) = 1

-----------------------------------------------------------------------------
(* Order-independence of the quorum decision, checked under Spec *)

\* Every reordering of the sequence rs.
Permutations(rs) ==
    LET n == Len(rs)
        bijections == {f \in [1..n -> 1..n] : \A i, j \in 1..n : f[i] = f[j] => i = j}
    IN  {[i \in 1..n |-> rs[f[i]]] : f \in bijections}

\* build_tx_req returns a request (not None) on the value item with responses rs.
Accepts(rs, proposal, header) ==
    LET item == [kind |-> "value", responses |-> rs, proposal |-> proposal,
                 header |-> header]
    IN  AfterGet(item, "TypeError").out.value.kind = "req"

\* C15: build_tx_req accepts a reordering of the delivered response set exactly
\* when it accepted the delivered set.
C15_DecisionIsOrderIndependent ==
    DeliveredValue =>
        \A perm \in Permutations(got[1].responses) :
            Accepts(perm, got[1].proposal, got[1].header) <=> ReturnedRequest

C15_Witness ==
    /\ DeliveredValue
    /\ Len(got[1].responses) >= 2
    /\ got[1].responses[1].status # SuccessStatus
    /\ got[1].responses[2].status = SuccessStatus
    /\ statusChecks = 1
    /\ ReturnedNone

-----------------------------------------------------------------------------
(* The signed bytes are the carried bytes, checked under SpecCalls *)

\* C16: sign_proposal returns a SignedProposal whose proposal_bytes are the bytes
\* it passed to the signing capability (the serialized proposal) and whose
\* signature is the value the capability returned for them; the envelope that
\* send_transaction broadcasts has as payload the very bytes create_tx_payload
\* returned and the signing capability received, and as signature the value
\* returned for them.
C16_SignedBytesAreCarriedBytes ==
    /\ (call.called /\ call.op = "sign_proposal" /\ call.signOk) =>
          LET ss == CallsOf(call.calls, "sign") IN
          /\ Len(ss) = 1
          /\ ss[1].bytes = SerializeToString(call.proposal)
          /\ call.result.kind = "return"
          /\ call.result.value.proposal_bytes = ss[1].bytes
          /\ call.result.value.signature = Signature(ss[1].bytes)
    /\ (DirectSend /\ CallsOf(call.calls, "broadcast") # <<>>) =>
          LET ss == CallsOf(call.calls, "sign")
              bs == CallsOf(call.calls, "broadcast")
              cs == CallsOf(call.calls, "create_tx_payload")
          IN  /\ Len(ss) = 1
              /\ Len(cs) = 1
              /\ ss[1].bytes = create_tx_payload(cs[1].endorsements, cs[1].tran_req)
              /\ \A i \in 1..Len(bs) :
                    /\ bs[i].envelope.payload = ss[1].bytes
                    /\ bs[i].envelope.signature = Signature(ss[1].bytes)

C16_Witness ==
    /\ DirectSend
    /\ PreconditionsHold(call)
    /\ call.signOk
    /\ Len(call.tran_req.responses) >= 2
    /\ Len(CallsOf(call.calls, "broadcast")) = 1
    /\ call.result.kind = "return"
    /\ call.result.value.kind = "handle"
    /\ call.result.value.envelope.payload = CallsOf(call.calls, "sign")[1].bytes

-----------------------------------------------------------------------------
(* After the timeout, checked under Spec *)

\* build_tx_req has ended by the timeout of q.get.
EndedByTimeout == pcB = "done" /\ outB = [kind |-> "raise", exc |-> "Empty"]

\* C17: once build_tx_req has ended by timeout, an item published afterwards
\* changes nothing: the outcome stays, the item is put in the slot and never read,
\* no status is checked, and send_transaction (assembly, signing, broadcast) is
\* never called on account of it.
C17_LateItemChangesNothing ==
    /\ [](EndedByTimeout =>
            /\ got = <<>>
            /\ statusChecks = 0
            /\ ~pst.called
            /\ arrivals # <<>> => q = <<arrivals[1]>>)
    /\ [][EndedByTimeout =>
            /\ outB' = outB
            /\ pcB' = pcB
            /\ got' = got
            /\ statusChecks' = statusChecks
            /\ pst' = pst]_vars

C17_Witness ==
    /\ EndedByTimeout
    /\ Len(arrivals) = 1
    /\ q = arrivals
    /\ arrivals[1].kind = "value"
    /\ arrivals[1].responses # <<>>
    /\ AllSuccess(arrivals[1].responses)
    /\ ~pst.called

-----------------------------------------------------------------------------
(* Properties of send_transaction_proposal, checked under SpecCalls *)

DirectProposal == call.called /\ call.op = "send_transaction_proposal"

\* The signing capability was called once, on the serialized proposal.
SignedOnce(c) ==
    LET ss == CallsOf(c.calls, "sign") IN
    /\ Len(ss) = 1
    /\ c.calls[1].op = "sign"
    /\ ss[1].bytes = [serialized |-> c.proposal]

\* One send_proposal per peer, in the peers' order, each with the one signed
\* proposal, and one handle per peer in the same order as the result.
FannedOut(c) ==
    LET ps == CallsOf(c.calls, "send_proposal")
        sp == [signature |-> [signed |-> [serialized |-> c.proposal]],
               proposal_bytes |-> [serialized |-> c.proposal]]
    IN  /\ Len(ps) = Len(c.peers)
        /\ \A i \in 1..Len(c.peers) :
              /\ ps[i].peer = c.peers[i]
              /\ ps[i].signed_proposal = sp
        /\ c.result.kind = "return"
        /\ Len(c.result.value) = Len(c.peers)
        /\ \A i \in 1..Len(c.peers) :
              /\ c.result.value[i].peer = c.peers[i]
              /\ c.result.value[i].signed_proposal = sp

\* C18 as stated: every call signs once, then sends the signed proposal once to
\* every peer in order and returns one handle per peer; with no peer it signs once
\* and returns the empty list.
C18_AlwaysFansOut ==
    DirectProposal => (SignedOnce(call) /\ FannedOut(call))

\* C18 amended: every call signs the proposal exactly once, for an empty peer set
\* too; when the signing returns, send_proposal is then called exactly once on
\* every peer, in the peers' order and with that same signed proposal, and the
\* handles are returned one per peer in that order (the empty list for no peer);
\* when the signing raises, the call raises and no peer is contacted.
C18_FansOutWhenSigned ==
    DirectProposal =>
        /\ SignedOnce(call)
        /\ call.signOk => FannedOut(call)
        /\ ~call.signOk =>
              /\ call.result = [kind |-> "raise", exc |-> "SignError"]
              /\ CallsOf(call.calls, "send_proposal") = <<>>

C18_Witness ==
    /\ DirectProposal
    /\ call.signOk
    /\ Len(call.peers) = 3
    /\ call.peers[1] = "N2"
    /\ Len(CallsOf(call.calls, "send_proposal")) = 3
    /\ call.result.kind = "return"

====
